---- MODULE Spec2Model ----
(***************************************************************************)
(* checkmarks: the Markdown task parser, the stats aggregator and the      *)
(* ChecklistManager of src/checkmarks/core.py.                             *)
(*                                                                         *)
(* Text is modelled at the level the code works on: a Markdown line is a   *)
(* sequence of one-character strings, a path is a sequence of components,  *)
(* and the config file is a sequence of JSON tokens (json.dumps writes     *)
(* them, json.loads parses them back or fails).                            *)
(***************************************************************************)
EXTENDS Integers, Sequences, FiniteSets, TLC

VARIABLES
    fs,     \* the Markdown files on disk: canonical path -> [kind, lines]
    cfg,    \* the config file: [exists, toks]
    cfg0,   \* the config file as the program found it (history)
    mgr,    \* "none" before ChecklistManager(...) is constructed, then "ready"
    data,   \* ChecklistManager._data
    last,   \* the last call: [op, arg, exc, saved, ret]
    inv,    \* the concurrent invocations of the program: [pc, op, arg, data]
    log     \* the opens and writes of the config file so far (history)

vars == <<fs, cfg, cfg0, mgr, data, last, inv, log>>

\* ------------------------------------------------------------------ bounds

\* longest tracked list a config file holds when the program starts
MaxCfgLen == 2
\* most lines in a Markdown file
MaxLines == 2
\* most paths handed to build_stats at once
MaxPaths == 2

\* ------------------------------------------------------------ sequences

RECURSIVE Count(_, _)
\* number of occurrences of x in the sequence s
Count(x, s) ==
    IF s = <<>> THEN 0
    ELSE (IF Head(s) = x THEN 1 ELSE 0) + Count(x, Tail(s))

\* x in s, for a Python list s
InSeq(x, s) == \E i \in 1..Len(s) : s[i] = x

\* all sequences over S of length at most n
SeqsUpTo(S, n) == UNION {[1..k -> S] : k \in 0..n}

RECURSIVE RemoveFirst(_, _)
\* list.remove(x): deletes the first occurrence only
RemoveFirst(x, s) ==
    IF s = <<>> THEN <<>>
    ELSE IF Head(s) = x THEN Tail(s)
    ELSE <<Head(s)>> \o RemoveFirst(x, Tail(s))

\* ------------------------------------------------------------------ paths

\* the working directory and the home directory of the process
Cwd == <<"/", "d">>
Home == <<"/", "h">>

\* the path strings of the model
PathStrings ==
    {"a.md", "./a.md", "../d/a.md", "/d/a.md", "/d/l.md",
     "b.md", "/d/b.md", "~/c.md", "/h/c.md", "/d/notes", "/d/gone.md"}

\* Path(s).parts
Parts(s) ==
    CASE s = "a.md"       -> <<"a.md">>
      [] s = "./a.md"     -> <<"a.md">>
      [] s = "../d/a.md"  -> <<"..", "d", "a.md">>
      [] s = "/d/a.md"    -> <<"/", "d", "a.md">>
      [] s = "/d/l.md"    -> <<"/", "d", "l.md">>
      [] s = "b.md"       -> <<"b.md">>
      [] s = "/d/b.md"    -> <<"/", "d", "b.md">>
      [] s = "~/c.md"     -> <<"~", "c.md">>
      [] s = "/h/c.md"    -> <<"/", "h", "c.md">>
      [] s = "/d/notes"   -> <<"/", "d", "notes">>
      [] s = "/d/gone.md" -> <<"/", "d", "gone.md">>

\* str(path): the string whose parts these are
PathStr(parts) ==
    CHOOSE s \in PathStrings \ {"./a.md"} : Parts(s) = parts

\* the symbolic links of the file system: /d/l.md -> /d/a.md
LinkTarget(parts) ==
    IF parts = <<"/", "d", "l.md">> THEN <<"/", "d", "a.md">> ELSE parts

\* Path.expanduser(): a leading ~ is the home directory
ExpandUser(parts) ==
    IF parts # <<>> /\ Head(parts) = "~" THEN Home \o Tail(parts) ELSE parts

\* Path.absolute(): relative paths are taken from the working directory
Absolute(parts) ==
    IF parts # <<>> /\ Head(parts) = "/" THEN parts ELSE Cwd \o parts

RECURSIVE Walk(_, _)
\* Path.resolve(): walk the components, dropping "..", following links
Walk(done, rest) ==
    IF rest = <<>> THEN done
    ELSE IF Head(rest) = ".."
         THEN Walk(IF Len(done) > 1 THEN SubSeq(done, 1, Len(done) - 1) ELSE done,
                   Tail(rest))
    ELSE Walk(LinkTarget(Append(done, Head(rest))), Tail(rest))

\* a resolve() that was forgotten: the path is stored as spelled
ResolvePathMutant(s) == s

\* str(Path(markdown_path).expanduser().resolve())
ResolvePath(s) ==
    LET p == Absolute(ExpandUser(Parts(s)))
    IN  PathStr(Walk(<<Head(p)>>, Tail(p)))

\* ------------------------------------------------------------------- JSON

\* the tokens of a JSON text: punctuation, string literal, number, bare word
P(c) == [k |-> "punct", v |-> c]
S(c) == [k |-> "string", v |-> c]
N(c) == [k |-> "number", v |-> c]
W(c) == [k |-> "word", v |-> c]

\* A JSON value as Python holds it after json.loads. t is the value's type;
\* for a dict, key is its one key ("" for {}), vt the type of the value under
\* it and items that value (a list's elements, or <<s>> for the string s);
\* for a list, items are its elements; for a str, items = <<s>>.
JDict(key, vt, items) == [t |-> "dict", key |-> key, vt |-> vt, items |-> items]
JList(items) == [t |-> "list", key |-> "", vt |-> "", items |-> items]
JStr(s) == [t |-> "str", key |-> "", vt |-> "", items |-> <<s>>]
JNum(n) == [t |-> "int", key |-> "", vt |-> "", items |-> <<n>>]
JNull == [t |-> "NoneType", key |-> "", vt |-> "", items |-> <<>>]

RECURSIVE DumpItems(_)
\* the elements of a JSON array, comma-separated
DumpItems(items) ==
    IF items = <<>> THEN <<>>
    ELSE IF Len(items) = 1 THEN <<S(items[1])>>
    ELSE <<S(Head(items)), P(",")>> \o DumpItems(Tail(items))

\* the tokens of a list, str, int or None
DumpPlain(t, items) ==
    CASE t = "list" -> <<P("[")>> \o DumpItems(items) \o <<P("]")>>
      [] t = "str" -> <<S(items[1])>>
      [] t = "int" -> <<N(items[1])>>
      [] t = "NoneType" -> <<W("null")>>

\* json.dumps(value, indent=2), white space left out
JsonDumps(d) ==
    IF d.t = "dict"
    THEN IF d.key = "" THEN <<P("{"), P("}")>>
         ELSE <<P("{"), S(d.key), P(":")>> \o DumpPlain(d.vt, d.items) \o <<P("}")>>
    ELSE DumpPlain(d.t, d.items)

\* the tokens between [ and ] are strings separated by commas
IsItems(toks) ==
    \/ toks = <<>>
    \/ /\ Len(toks) % 2 = 1
       /\ \A i \in 1..Len(toks) :
            IF i % 2 = 1 THEN toks[i].k = "string" ELSE toks[i] = P(",")

\* the strings among the tokens between [ and ]
ItemsOf(toks) == [i \in 1..((Len(toks) + 1) \div 2) |-> toks[2 * i - 1].v]

\* toks is one array
IsArray(toks) ==
    /\ Len(toks) >= 2
    /\ toks[1] = P("[")
    /\ toks[Len(toks)] = P("]")
    /\ IsItems(SubSeq(toks, 2, Len(toks) - 1))

\* toks is one string, number or null
IsScalar(toks) ==
    /\ Len(toks) = 1
    /\ \/ toks[1].k \in {"string", "number"}
       \/ toks[1] = W("null")

\* toks is an array or a scalar
IsPlain(toks) == IsArray(toks) \/ IsScalar(toks)

\* the type and the items of an array or a scalar
PlainType(toks) ==
    IF IsArray(toks) THEN "list"
    ELSE IF toks[1].k = "string" THEN "str"
    ELSE IF toks[1].k = "number" THEN "int"
    ELSE "NoneType"

PlainItems(toks) ==
    IF IsArray(toks) THEN ItemsOf(SubSeq(toks, 2, Len(toks) - 1))
    ELSE IF toks[1] = W("null") THEN <<>>
    ELSE <<toks[1].v>>

\* toks is an object of no key or of one
IsObject(toks) ==
    \/ toks = <<P("{"), P("}")>>
    \/ /\ Len(toks) >= 5
       /\ toks[1] = P("{")
       /\ toks[2].k = "string"
       /\ toks[3] = P(":")
       /\ toks[Len(toks)] = P("}")
       /\ IsPlain(SubSeq(toks, 4, Len(toks) - 1))

\* json.loads(text): [ok, val]; ok = FALSE is json.JSONDecodeError
JsonLoads(toks) ==
    IF IsObject(toks)
    THEN [ok |-> TRUE,
          val |-> IF Len(toks) = 2 THEN JDict("", "", <<>>)
                  ELSE LET inner == SubSeq(toks, 4, Len(toks) - 1)
                       IN  JDict(toks[2].v, PlainType(inner), PlainItems(inner))]
    ELSE IF IsPlain(toks)
    THEN [ok |-> TRUE,
          val |-> [t |-> PlainType(toks), key |-> "", vt |-> "",
                   items |-> PlainItems(toks)]]
    ELSE [ok |-> FALSE, val |-> JNull]

\* ------------------------------------------------------- Python semantics

\* a in b for two str: a is a substring of b
IsSubstr(a, b) ==
    \/ a = b
    \/ <<a, b>> \in {<<"a.md", "./a.md">>, <<"a.md", "../d/a.md">>,
                     <<"a.md", "/d/a.md">>, <<"/d/a.md", "../d/a.md">>,
                     <<"b.md", "/d/b.md">>}

\* self._data["lists"]: [exc, vt, items]
Subscript(d) ==
    IF d.t = "dict"
    THEN IF d.key = "lists"
         THEN [exc |-> "none", vt |-> d.vt, items |-> d.items]
         ELSE [exc |-> "KeyError", vt |-> "", items |-> <<>>]
    ELSE [exc |-> "TypeError", vt |-> "", items |-> <<>>]

\* md in x, for the value x of type vt: [exc, found]
Contains(md, vt, items) ==
    CASE vt = "list" -> [exc |-> "none", found |-> InSeq(md, items)]
      [] vt = "str" -> [exc |-> "none", found |-> IsSubstr(md, items[1])]
      [] OTHER -> [exc |-> "TypeError", found |-> FALSE]

\* ----------------------------------------------------- ChecklistManager

\* {"lists": []}
EmptyData == JDict("lists", "list", <<>>)

\* a _load that lets the parse error out
LoadMutant(file) ==
    IF file.exists
    THEN LET r == JsonLoads(file.toks)
         IN  IF r.ok THEN [exc |-> "none", data |-> r.val]
             ELSE [exc |-> "JSONDecodeError", data |-> JNull]
    ELSE [exc |-> "none", data |-> EmptyData]

\* ChecklistManager._load: [exc, data]
Load(file) ==
    IF file.exists
    THEN LET r == JsonLoads(file.toks)
         IN  [exc |-> "none", data |-> IF r.ok THEN r.val ELSE EmptyData]
    ELSE [exc |-> "none", data |-> EmptyData]

\* a _save that writes the bare list instead of the whole object
SaveMutant(d) == [exists |-> TRUE, toks |-> JsonDumps(JList(d.items))]

\* ChecklistManager._save: the file after write_text(json.dumps(_data))
Save(d) == [exists |-> TRUE, toks |-> JsonDumps(d)]

\* a write_text that replaces the file in one step: an interrupted write
\* leaves the file as it was
SavePartialMutant(old, d, n) == old

\* ChecklistManager._save interrupted: write_text has opened the file for
\* writing, which empties it, and the first n tokens of the text reached it
SavePartial(old, d, n) == [exists |-> TRUE, toks |-> SubSeq(JsonDumps(d), 1, n)]

\* an add that saves whether or not it appended
AddMutantAlwaysSave(d, md) ==
    LET sub == Subscript(d)
    IN  IF sub.exc # "none" \/ sub.vt # "list"
        THEN [exc |-> "TypeError", data |-> d, save |-> FALSE]
        ELSE [exc |-> "none",
              data |-> IF InSeq(md, sub.items) THEN d
                       ELSE [d EXCEPT !.items = Append(@, md)],
              save |-> TRUE]

\* the body of ChecklistManager.add, md already resolved: [exc, data, save]
AddBody(d, md) ==
    LET sub == Subscript(d)
        has == Contains(md, sub.vt, sub.items)
    IN  IF sub.exc # "none"
        THEN [exc |-> sub.exc, data |-> d, save |-> FALSE]
        ELSE IF has.exc # "none"
        THEN [exc |-> has.exc, data |-> d, save |-> FALSE]
        ELSE IF has.found
        THEN [exc |-> "none", data |-> d, save |-> FALSE]
        ELSE IF sub.vt # "list"
        THEN [exc |-> "AttributeError", data |-> d, save |-> FALSE]
        ELSE [exc |-> "none", data |-> [d EXCEPT !.items = Append(@, md)],
              save |-> TRUE]

\* the body of ChecklistManager.remove, md already resolved: [exc, data, save]
RemoveBody(d, md) ==
    LET sub == Subscript(d)
        has == Contains(md, sub.vt, sub.items)
    IN  IF sub.exc # "none"
        THEN [exc |-> sub.exc, data |-> d, save |-> FALSE]
        ELSE IF has.exc # "none"
        THEN [exc |-> has.exc, data |-> d, save |-> FALSE]
        ELSE IF ~has.found
        THEN [exc |-> "none", data |-> d, save |-> FALSE]
        ELSE IF sub.vt # "list"
        THEN [exc |-> "AttributeError", data |-> d, save |-> FALSE]
        ELSE [exc |-> "none",
              data |-> [d EXCEPT !.items = RemoveFirst(md, @)],
              save |-> TRUE]

\* ChecklistManager.list_paths: [exc, ret]
ListPathsBody(d) ==
    LET sub == Subscript(d)
    IN  IF sub.exc # "none" THEN [exc |-> sub.exc, vt |-> "", ret |-> <<>>]
        ELSE [exc |-> "none", vt |-> sub.vt, ret |-> sub.items]

\* ------------------------------------------------------------ the inputs

\* the paths a config file holds when the program starts
CfgPaths == {"/d/a.md", "/d/b.md", "a.md"}

\* the paths the caller hands to add and remove
Spellings == {"a.md", "/d/l.md", "b.md", "~/c.md"}

\* parseable config files: modern, legacy, and other JSON
InitValues ==
    {JDict("lists", "list", l) : l \in SeqsUpTo(CfgPaths, MaxCfgLen)}
    \cup {JList(l) : l \in SeqsUpTo(CfgPaths, MaxCfgLen)}
    \cup {JDict("", "", <<>>), JDict("tracked_files", "list", <<"/d/a.md">>),
          JDict("lists", "str", <<"">>),
          JDict("lists", "NoneType", <<>>), JDict("lists", "int", <<"7">>),
          JNum("7"), JNull, JStr("")}

\* a config file as a crash in the middle of a write leaves it
Truncated ==
    LET full == JsonDumps(JDict("lists", "list", <<"/d/a.md", "/d/b.md">>))
    IN  {SubSeq(full, 1, n) : n \in 0..(Len(full) - 1)}

\* config files json.loads rejects: "{not json", "", truncated writes
Malformed == {<<P("{"), W("not"), W("json")>>} \cup Truncated

InitCfg ==
    {[exists |-> FALSE, toks |-> <<>>]}
    \cup {[exists |-> TRUE, toks |-> JsonDumps(v)] : v \in InitValues}
    \cup {[exists |-> TRUE, toks |-> t] : t \in Malformed}

\* the call that has not happened yet
NoCall == [op |-> "none", arg |-> "", exc |-> "none", saved |-> FALSE, ret |-> <<>>]

\* --------------------------------------------------------- Markdown text
\* A line is a sequence of one-character strings, its line end left out.
\* the line # My List
LineTitle == <<"#", " ", "M", "y", " ", "L", "i", "s", "t">>
\* the line - [ ] a
LineOpen == <<"-", " ", "[", " ", "]", " ", "a">>
\* the line - [x] b
LineDone == <<"-", " ", "[", "x", "]", " ", "b">>
\* the line * [X] c
LineDoneStar == <<"*", " ", "[", "X", "]", " ", "c">>
\* the line   # T2 
LineTitleIndented == <<" ", " ", "#", " ", "T", "2", " ">>
\* the line -[x]
LineDoneTight == <<"-", "[", "x", "]">>
\* the line - [y]
LineNotTask == <<"-", " ", "[", "y", "]">>
\* the line t
LineText == <<"t">>
\* the line \-\\x
LineCodeTask == <<"\\", "-", "\\", "\\", "x">>
\* the line \s*\s\ z
LineCodeTaskOpen == <<"\\", "s", "*", "\\", "s", "\\", " ", "z">>
\* the line \#\s T
LineCodeTitle == <<"\\", "#", "\\", "s", " ", "T">>
\* the line \#\ss
LineCodeTitleS == <<"\\", "#", "\\", "s", "s">>

\* the file of the documented example
ExampleFile == <<LineTitle, LineOpen, LineDone, LineDoneStar>>

\* the lines Markdown files are made of
LineSet ==
    {LineTitle,
     LineOpen,
     LineDone,
     LineDoneStar,
     LineTitleIndented,
     LineDoneTight,
     LineNotTask,
     LineText,
     LineCodeTask,
     LineCodeTaskOpen,
     LineCodeTitle,
     LineCodeTitleS}

\* the characters of a path component
NameChars(c) ==
    CASE c = "a.md" -> <<"a", ".", "m", "d">>
      [] c = "l.md" -> <<"l", ".", "m", "d">>
      [] c = "b.md" -> <<"b", ".", "m", "d">>
      [] c = "c.md" -> <<"c", ".", "m", "d">>
      [] c = "notes" -> <<"n", "o", "t", "e", "s">>
      [] c = "gone.md" -> <<"g", "o", "n", "e", ".", "m", "d">>
      [] c = "d" -> <<"d">>
      [] c = "h" -> <<"h">>
      [] c = "/" -> <<"/">>

\* ------------------------------------------------------------- the parser

\* the character at position i, "" past the end of the line
At(line, i) == IF i >= 1 /\ i <= Len(line) THEN line[i] ELSE ""

RECURSIVE SkipChars(_, _, _)
\* the first position from i on whose character is not in cs
SkipChars(line, i, cs) ==
    IF At(line, i) \in cs THEN SkipChars(line, i + 1, cs) ELSE i

\* str.strip(): white space dropped at both ends
WhiteSpace == {" ", "\t"}

RECURSIVE StripLeft(_)
StripLeft(text) ==
    IF text # <<>> /\ Head(text) \in WhiteSpace THEN StripLeft(Tail(text)) ELSE text

RECURSIVE StripRight(_)
StripRight(text) ==
    IF text # <<>> /\ text[Len(text)] \in WhiteSpace
    THEN StripRight(SubSeq(text, 1, Len(text) - 1))
    ELSE text

Strip(text) == StripRight(StripLeft(text))

\* TASK_RE.match(line) is not None. The pattern is the raw string
\* ^\\s*[-*]\\s*\\[(x|X| )] : a backslash, any number of s, - or *, a
\* backslash, any number of s, a backslash, one of ( x | X space )
TaskReMatch(line) ==
    LET i == SkipChars(line, 2, {"s"})
        j == SkipChars(line, i + 2, {"s"})
    IN  /\ At(line, 1) = "\\"
        /\ At(line, i) \in {"-", "*"}
        /\ At(line, i + 1) = "\\"
        /\ At(line, j) = "\\"
        /\ At(line, j + 1) \in {"(", "x", "|", "X", " ", ")"}

\* m.group(1) of a TASK_RE match: the pattern has no group (its brackets
\* are a character class), so this is IndexError
TaskReGroup(line) == [exc |-> "IndexError", text |-> <<>>]

\* TITLE_RE.match(line): [ok, text], text = m.group(1). The pattern is the
\* raw string ^\\s*#\\s+(.+)$ : a backslash, any number of s, #, a
\* backslash, one s or more, then the rest of the line (one character or
\* more; the s+ gives one s back when nothing follows it)
TitleReMatch(line) ==
    LET i == SkipChars(line, 2, {"s"})
        j == SkipChars(line, i + 2, {"s"})
        n == Len(line)
    IN  IF /\ At(line, 1) = "\\"
           /\ At(line, i) = "#"
           /\ At(line, i + 1) = "\\"
           /\ At(line, i + 2) = "s"
           /\ (j <= n \/ j - (i + 2) >= 2)
        THEN [ok |-> TRUE,
              text |-> IF j <= n THEN SubSeq(line, j, n) ELSE <<"s">>]
        ELSE [ok |-> FALSE, text |-> <<>>]

\* os: the file a path names, from the working directory, links followed
FileAt(files, parts) ==
    LET p == Absolute(parts)
    IN  files[PathStr(Walk(<<Head(p)>>, Tail(p)))]

\* Path.is_file()
IsFile(files, parts) == FileAt(files, parts).kind = "file"

\* Path.name: the last component
PathName(parts) == NameChars(parts[Len(parts)])

RECURSIVE LastDot(_, _)
\* str.rfind("."), 1-based; 0 when there is none
LastDot(name, i) ==
    IF i = 0 THEN 0 ELSE IF name[i] = "." THEN i ELSE LastDot(name, i - 1)

\* Path.stem: the name without its last suffix
PathStem(parts) ==
    LET name == PathName(parts)
        i == LastDot(name, Len(name))
    IN  IF i > 1 /\ i < Len(name) THEN SubSeq(name, 1, i - 1) ELSE name

\* a loop body that counts every line as completed
TasksStepMutant(acc, line) ==
    [acc EXCEPT !.completed = @ + 1,
                !.total = @ + (IF TaskReMatch(line) THEN 1 ELSE 0)]

\* one turn of the loop of parse_markdown_tasks: [exc, completed, total]
TasksStep(acc, line) ==
    IF ~TaskReMatch(line) THEN acc
    ELSE LET g == TaskReGroup(line)
         IN  IF g.exc # "none"
             THEN [acc EXCEPT !.exc = g.exc, !.total = @ + 1]
             ELSE [acc EXCEPT !.total = @ + 1,
                              !.completed = @ + (IF g.text \in {<<"x">>, <<"X">>}
                                                 THEN 1 ELSE 0)]

RECURSIVE TasksLoop(_, _)
\* for line in fh: ... ; an exception ends the loop
TasksLoop(acc, lines) ==
    IF lines = <<>> \/ acc.exc # "none" THEN acc
    ELSE TasksLoop(TasksStep(acc, Head(lines)), Tail(lines))

\* parse_markdown_tasks(file_path): [exc, completed, total]
ParseTasks(files, path) ==
    LET p == ExpandUser(Parts(path))
    IN  IF ~IsFile(files, p) THEN [exc |-> "none", completed |-> 0, total |-> 0]
        ELSE TasksLoop([exc |-> "none", completed |-> 0, total |-> 0],
                       FileAt(files, p).lines)

RECURSIVE TitleLoop(_, _)
\* for line in fh: the first match returns; no match returns the stem
TitleLoop(lines, stem) ==
    IF lines = <<>> THEN stem
    ELSE LET m == TitleReMatch(Head(lines))
         IN  IF m.ok THEN Strip(m.text) ELSE TitleLoop(Tail(lines), stem)

\* parse_markdown_title(file_path): the title, a sequence of characters
ParseTitle(files, path) ==
    LET p == ExpandUser(Parts(path))
    IN  IF ~IsFile(files, p) THEN PathName(p)
        ELSE TitleLoop(FileAt(files, p).lines, PathStem(p))

RECURSIVE StatsLoop(_, _, _)
\* the loop of build_stats: [exc, ret], ret the ChecklistStat list
StatsLoop(files, paths, acc) ==
    IF paths = <<>> THEN acc
    ELSE LET pth == PathStr(ExpandUser(Parts(Head(paths))))
             title == ParseTitle(files, pth)
             tasks == ParseTasks(files, pth)
         IN  IF tasks.exc # "none" THEN [exc |-> tasks.exc, ret |-> <<>>]
             ELSE StatsLoop(files, Tail(paths),
                            [acc EXCEPT !.ret = Append(@,
                                [path |-> pth, title |-> title,
                                 completed |-> tasks.completed,
                                 total |-> tasks.total])])

\* build_stats(paths)
BuildStats(files, paths) == StatsLoop(files, paths, [exc |-> "none", ret |-> <<>>])

\* iterating over a str gives its characters; the one str the model puts
\* under "lists" is the empty one
StrChars(str) == IF str = "" THEN <<>> ELSE <<str>>

\* ChecklistManager.stats: build_stats(self.list_paths())
StatsBody(files, d) ==
    LET l == ListPathsBody(d)
    IN  IF l.exc # "none" THEN [exc |-> l.exc, ret |-> <<>>]
        ELSE IF l.vt \notin {"list", "str"} THEN [exc |-> "TypeError", ret |-> <<>>]
        ELSE IF l.vt = "str" THEN BuildStats(files, StrChars(l.ret[1]))
        ELSE BuildStats(files, l.ret)

\* ------------------------------------------------------------ file systems

\* the canonical paths of the file system
CanonPaths == {"/d/a.md", "/d/b.md", "/h/c.md", "/d/notes", "/d/gone.md"}

NoFile == [kind |-> "absent", lines |-> <<>>]
Dir == [kind |-> "dir", lines |-> <<>>]
File(lines) == [kind |-> "file", lines |-> lines]

\* a file system whose /d/a.md holds these lines; /d/b.md is a file with
\* one plain line, /d/notes a directory, the other paths name nothing
FsWith(lines) ==
    [p \in CanonPaths |->
        CASE p = "/d/a.md" -> File(lines)
          [] p = "/d/b.md" -> File(<<LineText>>)
          [] p = "/d/notes" -> Dir
          [] OTHER -> NoFile]

\* the contents a Markdown file is drawn from
FileContents == SeqsUpTo(LineSet, MaxLines) \cup {ExampleFile}

\* ---------------------------------------------------------------- actions

\* mgr = ChecklistManager(config_path): __init__ calls _load
Construct ==
    /\ mgr = "none"
    /\ LET r == Load(cfg)
       IN  /\ data' = r.data
           /\ mgr' = IF r.exc = "none" THEN "ready" ELSE "none"
           /\ last' = [op |-> "init", arg |-> "", exc |-> r.exc,
                       saved |-> FALSE, ret |-> <<>>]
    /\ UNCHANGED <<inv, log, fs, cfg, cfg0>>

\* mgr.add(p)
Add(p) ==
    /\ mgr = "ready"
    /\ LET r == AddBody(data, ResolvePath(p))
       IN  /\ data' = r.data
           /\ cfg' = IF r.save THEN Save(r.data) ELSE cfg
           /\ last' = [op |-> "add", arg |-> p, exc |-> r.exc,
                       saved |-> r.save, ret |-> <<>>]
    /\ UNCHANGED <<inv, log, fs, cfg0, mgr>>

\* mgr.remove(p)
Remove(p) ==
    /\ mgr = "ready"
    /\ LET r == RemoveBody(data, ResolvePath(p))
       IN  /\ data' = r.data
           /\ cfg' = IF r.save THEN Save(r.data) ELSE cfg
           /\ last' = [op |-> "remove", arg |-> p, exc |-> r.exc,
                       saved |-> r.save, ret |-> <<>>]
    /\ UNCHANGED <<inv, log, fs, cfg0, mgr>>

\* mgr.list_paths()
ListPaths ==
    /\ mgr = "ready"
    /\ LET r == ListPathsBody(data)
       IN  last' = [op |-> "list_paths", arg |-> "", exc |-> r.exc,
                    saved |-> FALSE, ret |-> r.ret]
    /\ UNCHANGED <<inv, log, fs, cfg, cfg0, mgr, data>>

\* mgr.stats()
Stats ==
    /\ mgr = "ready"
    /\ LET r == StatsBody(fs, data)
       IN  last' = [op |-> "stats", arg |-> "", exc |-> r.exc,
                    saved |-> FALSE, ret |-> r.ret]
    /\ UNCHANGED <<inv, log, fs, cfg, cfg0, mgr, data>>

\* the paths handed to the parser
ParsePaths == {"a.md", "/d/l.md", "/d/b.md", "~/c.md", "/d/notes", "/d/gone.md"}

\* no call has been made yet (the parser keeps no state, so its
\* specification makes one call per behaviour)
FirstCall == last.op = "none"

\* parse_markdown_tasks(p)
ParseTasksCall(p) ==
    /\ FirstCall
    /\ LET r == ParseTasks(fs, p)
       IN  last' = [op |-> "parse_tasks", arg |-> p, exc |-> r.exc,
                    saved |-> FALSE, ret |-> <<r.completed, r.total>>]
    /\ UNCHANGED <<inv, log, fs, cfg, cfg0, mgr, data>>

\* parse_markdown_title(p)
ParseTitleCall(p) ==
    /\ FirstCall
    /\ last' = [op |-> "parse_title", arg |-> p, exc |-> "none",
                saved |-> FALSE, ret |-> ParseTitle(fs, p)]
    /\ UNCHANGED <<inv, log, fs, cfg, cfg0, mgr, data>>

\* build_stats(ps)
BuildStatsCall(ps) ==
    /\ FirstCall
    /\ LET r == BuildStats(fs, ps)
       IN  last' = [op |-> "build_stats", arg |-> ps, exc |-> r.exc,
                    saved |-> FALSE, ret |-> r.ret]
    /\ UNCHANGED <<inv, log, fs, cfg, cfg0, mgr, data>>

\* mgr.stats() as the one call of a behaviour
StatsCall == FirstCall /\ Stats

\* the places at which a write of d's text can be interrupted
CrashPoints(d) == 0..(Len(JsonDumps(d)) - 1)

\* mgr.add(p) of a new path, the process dying inside _save
CrashInAdd(p) ==
    /\ mgr = "ready"
    /\ LET r == AddBody(data, ResolvePath(p))
       IN  /\ r.save
           /\ \E n \in CrashPoints(r.data) : cfg' = SavePartial(cfg, r.data, n)
           /\ last' = [op |-> "crash", arg |-> p, exc |-> r.exc,
                       saved |-> FALSE, ret |-> <<>>]
    /\ mgr' = "none"
    /\ data' = JNull
    /\ UNCHANGED <<inv, log, fs, cfg0>>

\* mgr.remove(p) of a tracked path, the process dying inside _save
CrashInRemove(p) ==
    /\ mgr = "ready"
    /\ LET r == RemoveBody(data, ResolvePath(p))
       IN  /\ r.save
           /\ \E n \in CrashPoints(r.data) : cfg' = SavePartial(cfg, r.data, n)
           /\ last' = [op |-> "crash", arg |-> p, exc |-> r.exc,
                       saved |-> FALSE, ret |-> <<>>]
    /\ mgr' = "none"
    /\ data' = JNull
    /\ UNCHANGED <<inv, log, fs, cfg0>>

\* the process ends after its command; the next invocation constructs a
\* new manager on the same config file
Exit ==
    /\ mgr = "ready"
    /\ mgr' = "none"
    /\ data' = JNull
    /\ last' = [op |-> "exit", arg |-> "", exc |-> "none",
                saved |-> FALSE, ret |-> <<>>]
    /\ UNCHANGED <<inv, log, fs, cfg, cfg0>>

\* ------------------------------------------------------- the beta parsers
\* beta/main.py scans a file twice (title, then tasks); beta/main2.py scans
\* it once. Every line of a file ends with a newline, which \\s matches.

\* the line # a.md
LineTitleName == <<"#", " ", "a", ".", "m", "d">>
\* the line #, two blanks
LineTitleBlank == <<"#", " ", " ">>
\* the line - [x] (nothing after the bracket)
LineDoneBare == <<"-", " ", "[", "x", "]">>

\* the lines the beta parsers are run on
BetaLineSet ==
    {LineTitle, LineTitleName, LineTitleIndented, LineTitleBlank,
     LineOpen, LineDone, LineDoneStar, LineDoneTight, LineDoneBare,
     LineNotTask, LineText}

BetaContents == SeqsUpTo(BetaLineSet, MaxLines) \cup {ExampleFile}

\* the paths the beta parsers are given
BetaPaths == {"a.md", "/d/l.md", "/d/b.md", "/d/notes", "/d/gone.md"}

\* os.path.isfile(file_path)
BetaIsFile(files, path) == IsFile(files, Parts(path))

\* os.path.basename(file_path)
BetaBaseName(path) == PathName(Parts(path))

\* task_pattern.match(line), ^(\\s*)[-*]\\s+\\[([ xX])\\]\\s+ : [ok, mark],
\* mark being group(2)
BetaTaskMatch(line) ==
    LET i == SkipChars(line, 1, WhiteSpace)
        j == SkipChars(line, i + 1, WhiteSpace)
    IN  IF /\ At(line, i) \in {"-", "*"}
           /\ j > i + 1
           /\ At(line, j) = "["
           /\ At(line, j + 1) \in {" ", "x", "X"}
           /\ At(line, j + 2) = "]"
           /\ (j + 3 > Len(line) \/ At(line, j + 3) \in WhiteSpace)
        THEN [ok |-> TRUE, mark |-> At(line, j + 1)]
        ELSE [ok |-> FALSE, mark |-> ""]

\* title_pattern.match(line), ^\\s*#\\s+(.+)$ : [ok, text], text being
\* group(1); when only white space follows the #, the group is its last
\* character
BetaTitleMatch(line) ==
    LET i == SkipChars(line, 1, WhiteSpace)
        j == SkipChars(line, i + 1, WhiteSpace)
        n == Len(line)
    IN  IF At(line, i) = "#" /\ j > i + 1 /\ (j <= n \/ j - (i + 1) >= 2)
        THEN [ok |-> TRUE,
              text |-> IF j <= n THEN SubSeq(line, j, n) ELSE <<line[n]>>]
        ELSE [ok |-> FALSE, text |-> <<>>]

\* the counting of one line: total += 1, completed += 1 on x or X
BetaCount(acc, line) ==
    LET m == BetaTaskMatch(line)
    IN  IF ~m.ok THEN acc
        ELSE [acc EXCEPT !.total = @ + 1,
                         !.completed = @ + (IF m.mark \in {"x", "X"} THEN 1 ELSE 0)]

RECURSIVE BetaTasksLoop(_, _)
BetaTasksLoop(acc, lines) ==
    IF lines = <<>> THEN acc
    ELSE BetaTasksLoop(BetaCount(acc, Head(lines)), Tail(lines))

\* beta/main.py parse_markdown_tasks(file_path): [completed, total]
BetaParseTasks(files, path) ==
    IF ~BetaIsFile(files, path) THEN [completed |-> 0, total |-> 0]
    ELSE BetaTasksLoop([completed |-> 0, total |-> 0],
                       FileAt(files, Parts(path)).lines)

RECURSIVE BetaTitleLoop(_, _)
BetaTitleLoop(lines, base) ==
    IF lines = <<>> THEN base
    ELSE LET m == BetaTitleMatch(Head(lines))
         IN  IF m.ok THEN Strip(m.text) ELSE BetaTitleLoop(Tail(lines), base)

\* beta/main.py parse_markdown_title(file_path)
BetaParseTitle(files, path) ==
    IF ~BetaIsFile(files, path) THEN BetaBaseName(path)
    ELSE BetaTitleLoop(FileAt(files, Parts(path)).lines, BetaBaseName(path))

\* the body of the loop of parse_markdown_file: the title is replaced when
\* the line is a heading and the title still equals the base name
BetaFileStep(acc, line, base) ==
    LET m == BetaTitleMatch(line)
        t == IF m.ok /\ acc.title = base THEN Strip(m.text) ELSE acc.title
    IN  BetaCount([acc EXCEPT !.title = t], line)

RECURSIVE BetaFileLoop(_, _, _)
BetaFileLoop(acc, lines, base) ==
    IF lines = <<>> THEN acc
    ELSE BetaFileLoop(BetaFileStep(acc, Head(lines), base), Tail(lines), base)

\* beta/main2.py parse_markdown_file(file_path): [title, completed, total]
BetaParseFile(files, path) ==
    LET start == [title |-> BetaBaseName(path), completed |-> 0, total |-> 0]
    IN  IF ~BetaIsFile(files, path) THEN start
        ELSE BetaFileLoop(start, FileAt(files, Parts(path)).lines,
                          BetaBaseName(path))

\* beta/main2.py: data = parse_markdown_file(p)
BetaParseFileCall(p) ==
    /\ FirstCall
    /\ LET r == BetaParseFile(fs, p)
       IN  last' = [op |-> "beta_parse_file", arg |-> p, exc |-> "none",
                    saved |-> FALSE, ret |-> <<r.title, r.completed, r.total>>]
    /\ UNCHANGED <<inv, log, fs, cfg, cfg0, mgr, data>>

\* beta/main.py: title = parse_markdown_title(p), then
\* completed, total = parse_markdown_tasks(p)
BetaTwoPassCall(p) ==
    /\ FirstCall
    /\ LET t == BetaParseTitle(fs, p)
           c == BetaParseTasks(fs, p)
       IN  last' = [op |-> "beta_two_pass", arg |-> p, exc |-> "none",
                    saved |-> FALSE, ret |-> <<t, c.completed, c.total>>]
    /\ UNCHANGED <<inv, log, fs, cfg, cfg0, mgr, data>>

\* ---------------------------------------------------- concurrent commands
\* Two processes run one command each on the same config file. A process
\* constructs its manager (_load), runs add or remove on its own _data, and
\* _save is write_text: open the file for writing, which empties it, then
\* write the text from the start of the file.

Invocations == {1, 2}

\* an invocation that takes no part
Idle == [pc |-> "idle", op |-> "", arg |-> "", data |-> JNull]

NoInv == [i \in Invocations |-> Idle]

\* the file after open(path, "w") that keeps the old content
OpenForWriteMutant(file) == [exists |-> TRUE, toks |-> file.toks]

\* the file after open(path, "w"): created if absent, emptied if present
OpenForWrite(file) == [exists |-> TRUE, toks |-> <<>>]

\* the file after text is written at its start: what lies beyond the text
\* stays
WriteAtStart(file, text) ==
    [exists |-> TRUE,
     toks |-> text \o SubSeq(file.toks, Len(text) + 1, Len(file.toks))]

\* where an invocation stands after add or remove returned r
AfterCall(r) ==
    IF r.exc # "none" THEN "failed"
    ELSE IF r.save THEN "open" ELSE "done"

\* invocation i constructs its ChecklistManager
RLoad(i) ==
    /\ inv[i].pc = "start"
    /\ inv' = [inv EXCEPT ![i].pc = "loaded", ![i].data = Load(cfg).data]
    /\ UNCHANGED <<fs, cfg, cfg0, mgr, data, last, log>>

\* invocation i runs add(p) up to its _save
RAdd(i, p) ==
    /\ inv[i].pc = "loaded"
    /\ LET r == AddBody(inv[i].data, ResolvePath(p))
       IN  inv' = [inv EXCEPT ![i] = [pc |-> AfterCall(r), op |-> "add",
                                      arg |-> p, data |-> r.data]]
    /\ UNCHANGED <<fs, cfg, cfg0, mgr, data, last, log>>

\* invocation i runs remove(p) up to its _save
RRemove(i, p) ==
    /\ inv[i].pc = "loaded"
    /\ LET r == RemoveBody(inv[i].data, ResolvePath(p))
       IN  inv' = [inv EXCEPT ![i] = [pc |-> AfterCall(r), op |-> "remove",
                                      arg |-> p, data |-> r.data]]
    /\ UNCHANGED <<fs, cfg, cfg0, mgr, data, last, log>>

\* _save of invocation i opens the config file
ROpen(i) ==
    /\ inv[i].pc = "open"
    /\ cfg' = OpenForWrite(cfg)
    /\ inv' = [inv EXCEPT ![i].pc = "write"]
    /\ log' = Append(log, <<i, "open">>)
    /\ UNCHANGED <<fs, cfg0, mgr, data, last>>

\* _save of invocation i writes its text and closes the file
RWrite(i) ==
    /\ inv[i].pc = "write"
    /\ cfg' = WriteAtStart(cfg, JsonDumps(inv[i].data))
    /\ inv' = [inv EXCEPT ![i].pc = "done"]
    /\ log' = Append(log, <<i, "write">>)
    /\ UNCHANGED <<fs, cfg0, mgr, data, last>>

\* ------------------------------------------------------- specifications

\* The manager: the program starts on any config file and a fixed set of
\* Markdown files, constructs the manager and calls its operations.
Init ==
    /\ fs = FsWith(ExampleFile)
    /\ cfg \in InitCfg
    /\ cfg0 = cfg
    /\ mgr = "none"
    /\ data = JNull
    /\ last = NoCall
    /\ inv = NoInv
    /\ log = <<>>

Next ==
    \/ Construct
    \/ \E p \in Spellings : Add(p)
    \/ \E p \in Spellings : Remove(p)
    \/ ListPaths
    \/ Stats

Spec == Init /\ [][Next]_vars

\* the config file of the manager the parser's specification runs beside
ParseCfg == Save(JDict("lists", "list", <<"/d/a.md", "/d/gone.md">>))

\* The parser: /d/a.md holds any of the file contents, and the parser, the
\* aggregator and the manager's stats() are applied to it.
ParseInit ==
    /\ fs \in {FsWith(c) : c \in FileContents}
    /\ cfg = ParseCfg
    /\ cfg0 = cfg
    /\ mgr = "ready"
    /\ data = Load(ParseCfg).data
    /\ last = NoCall
    /\ inv = NoInv
    /\ log = <<>>

\* the paths handed to build_stats
StatsPaths == {"a.md", "/d/b.md", "/d/gone.md"}

\* The parser keeps no state: a behaviour is one call on one file system.
ParseNext ==
    \/ \E p \in ParsePaths : ParseTasksCall(p)
    \/ \E p \in ParsePaths : ParseTitleCall(p)
    \/ \E ps \in SeqsUpTo(StatsPaths, MaxPaths) : BuildStatsCall(ps)
    \/ StatsCall

ParseSpec == ParseInit /\ [][ParseNext]_vars

\* The manager run as one process per command, a process possibly dying
\* while it saves.
CrashNext ==
    \/ Construct
    \/ \E p \in Spellings : Add(p)
    \/ \E p \in Spellings : Remove(p)
    \/ ListPaths
    \/ Exit
    \/ \E p \in Spellings : CrashInAdd(p)
    \/ \E p \in Spellings : CrashInRemove(p)

CrashSpec == Init /\ [][CrashNext]_vars

\* the config files the concurrent commands start on: none, or a modern one
RaceCfg ==
    {c \in InitCfg :
        \/ ~c.exists
        \/ /\ JsonLoads(c.toks).ok
           /\ JsonLoads(c.toks).val.t = "dict"
           /\ JsonLoads(c.toks).val.key = "lists"
           /\ JsonLoads(c.toks).val.vt = "list"}

\* Two invocations of the program started on the same config file.
RaceInit ==
    /\ fs = FsWith(ExampleFile)
    /\ cfg \in RaceCfg
    /\ cfg0 = cfg
    /\ mgr = "none"
    /\ data = JNull
    /\ last = NoCall
    /\ inv = [i \in Invocations |-> [Idle EXCEPT !.pc = "start"]]
    /\ log = <<>>

RaceNext ==
    \/ \E i \in Invocations : RLoad(i)
    \/ \E i \in Invocations : \E p \in Spellings : RAdd(i, p)
    \/ \E i \in Invocations : \E p \in Spellings : RRemove(i, p)
    \/ \E i \in Invocations : ROpen(i)
    \/ \E i \in Invocations : RWrite(i)

RaceSpec == RaceInit /\ [][RaceNext]_vars

\* The beta parsers: /d/a.md holds any of the beta contents, and one of
\* the two programs parses one path.
BetaInit ==
    /\ fs \in {FsWith(c) : c \in BetaContents}
    /\ cfg = ParseCfg
    /\ cfg0 = cfg
    /\ mgr = "ready"
    /\ data = Load(ParseCfg).data
    /\ last = NoCall
    /\ inv = NoInv
    /\ log = <<>>

BetaNext ==
    \/ \E p \in BetaPaths : BetaParseFileCall(p)
    \/ \E p \in BetaPaths : BetaTwoPassCall(p)

BetaSpec == BetaInit /\ [][BetaNext]_vars

\* ------------------------------------------------------------- properties

\* the absolute, expanded, link-free form each path string denotes
Canonical(s) ==
    CASE s \in {"a.md", "./a.md", "../d/a.md", "/d/a.md", "/d/l.md"} -> "/d/a.md"
      [] s \in {"b.md", "/d/b.md"} -> "/d/b.md"
      [] s \in {"~/c.md", "/h/c.md"} -> "/h/c.md"
      [] OTHER -> s

\* _data has the shape {"lists": [...]}
WellFormed(d) == d.t = "dict" /\ d.key = "lists" /\ d.vt = "list"

\* the program found no config file
FromAbsent == ~cfg0.exists

\* C1: starting from an absent config file, after add(path) list_paths()
\* holds the normalized form of path exactly once (from the empty list:
\* exactly [normalized path]), and after a following remove(path) it no
\* longer holds it (from [normalized path]: []).
C1_RoundTrip ==
    [][FromAbsent =>
        /\ last'.op = "add" =>
             /\ last'.exc = "none"
             /\ ListPathsBody(data').exc = "none"
             /\ Count(Canonical(last'.arg), ListPathsBody(data').ret) = 1
             /\ (mgr = "ready" /\ data.items = <<>>)
                    => ListPathsBody(data').ret = <<Canonical(last'.arg)>>
        /\ (last.op = "add" /\ last'.op = "remove" /\ last'.arg = last.arg) =>
             /\ last'.exc = "none"
             /\ Count(Canonical(last'.arg), ListPathsBody(data').ret) = 0
             /\ data.items = <<Canonical(last.arg)>>
                    => ListPathsBody(data').ret = <<>>
      ]_vars

\* C1's case: an add, then a remove of the same path that emptied the list
C1_Witness ==
    /\ FromAbsent
    /\ last.op = "remove"
    /\ last.arg = "/d/l.md"
    /\ last.saved
    /\ data.items = <<>>

\* the program found no config file, or one of the two documented shapes:
\* {"lists": [paths]} or a bare array of paths
Recognized(file) ==
    \/ ~file.exists
    \/ IsArray(file.toks)
    \/ (JsonLoads(file.toks).ok /\ WellFormed(JsonLoads(file.toks).val))

\* C2: in any manager state, add(path) twice in a row (same path, or two
\* spellings of one path) leaves the tracked list and the config file as
\* they are after the first add, with a single entry for the path.
C2_AddIdempotent ==
    [][(/\ Recognized(cfg0)
        /\ last.op = "add"
        /\ last'.op = "add"
        /\ Canonical(last'.arg) = Canonical(last.arg)) =>
            /\ data' = data
            /\ cfg' = cfg
            /\ last'.exc = "none"
            /\ ListPathsBody(data').exc = "none"
            /\ Count(Canonical(last'.arg), ListPathsBody(data').ret) = 1
      ]_vars

\* the config file is a bare JSON array (the legacy schema)
IsLegacy(file) == file.exists /\ IsArray(file.toks)

\* C3: when the config file is a bare JSON array of paths, construction
\* succeeds and list_paths() returns the array's paths in order, as it
\* does for the modern file {"lists": [same paths]}.
C3_LegacyLoad ==
    (IsLegacy(cfg0) /\ cfg = cfg0 /\ last.op = "list_paths") =>
        LET paths == ItemsOf(SubSeq(cfg0.toks, 2, Len(cfg0.toks) - 1))
            modern == Load(Save(JDict("lists", "list", paths))).data
        IN  /\ last.exc = "none"
            /\ last.ret = paths
            /\ last.ret = ListPathsBody(modern).ret

\* the config file exists and is not parseable JSON
IsMalformed(file) == file.exists /\ ~JsonLoads(file.toks).ok

\* C4: when the config file exists and is not parseable JSON, construction
\* raises nothing and list_paths() returns the empty list.
C4_MalformedEmpty ==
    (IsMalformed(cfg0) /\ cfg = cfg0 /\ last.op \in {"init", "list_paths"}) =>
        /\ last.exc = "none"
        /\ mgr = "ready"
        /\ ListPathsBody(data) = [exc |-> "none", vt |-> "list", ret |-> <<>>]
        /\ last.op = "list_paths" => last.ret = <<>>

\* C4's case: list_paths() on a manager built on the content {not json
C4_Witness ==
    /\ cfg0 = [exists |-> TRUE, toks |-> <<P("{"), W("not"), W("json")>>]
    /\ last.op = "list_paths"
    /\ last.ret = <<>>

\* the lines of the file a parser call was given
ArgLines == FileAt(fs, ExpandUser(Parts(last.arg))).lines

\* the parser call was given an existing regular file
ArgIsFile == IsFile(fs, ExpandUser(Parts(last.arg)))

\* a task line as the docstring of parse_markdown_tasks describes it:
\* white space, a bullet, white space, [x], [X] or [ ]
DocTaskLine(line) ==
    LET i == SkipChars(line, 1, WhiteSpace)
        j == SkipChars(line, i + 1, WhiteSpace)
    IN  /\ At(line, i) \in {"-", "*"}
        /\ At(line, j) = "["
        /\ At(line, j + 1) \in {"x", "X", " "}
        /\ At(line, j + 2) = "]"

RECURSIVE DocTotal(_)
\* the number of task lines
DocTotal(lines) ==
    IF lines = <<>> THEN 0
    ELSE (IF DocTaskLine(Head(lines)) THEN 1 ELSE 0) + DocTotal(Tail(lines))

\* a task line whose bracket holds x or X
DocDoneLine(line) ==
    /\ DocTaskLine(line)
    /\ At(line, SkipChars(line, SkipChars(line, 1, WhiteSpace) + 1, WhiteSpace) + 1)
          \in {"x", "X"}

RECURSIVE DocCompleted(_)
\* the number of completed task lines
DocCompleted(lines) ==
    IF lines = <<>> THEN 0
    ELSE (IF DocDoneLine(Head(lines)) THEN 1 ELSE 0) + DocCompleted(Tail(lines))

\* C5: for an existing file parse_markdown_tasks returns total = the
\* number of task lines (white space, - or *, white space, [ ], [x] or [X])
\* and completed = the number of those with x or X; the documented example
\* gives (2, 3).
C5_TaskCounting ==
    (last.op = "parse_tasks" /\ ArgIsFile) =>
        /\ last.exc = "none"
        /\ last.ret = <<DocCompleted(ArgLines), DocTotal(ArgLines)>>
        /\ ArgLines = ExampleFile => last.ret = <<2, 3>>

\* a heading line: white space, #, one white space or more, text;
\* [ok, text], text trimmed
DocHeading(line) ==
    LET i == SkipChars(line, 1, WhiteSpace)
        j == SkipChars(line, i + 1, WhiteSpace)
        n == Len(line)
    IN  IF At(line, i) = "#" /\ j > i + 1 /\ (j <= n \/ j - (i + 1) >= 2)
        THEN [ok |-> TRUE, text |-> Strip(SubSeq(line, j - 1, Len(line)))]
        ELSE [ok |-> FALSE, text |-> <<>>]

RECURSIVE DocTitle(_, _)
\* the text of the first heading line, or the fallback
DocTitle(lines, fallback) ==
    IF lines = <<>> THEN fallback
    ELSE IF DocHeading(Head(lines)).ok THEN DocHeading(Head(lines)).text
    ELSE DocTitle(Tail(lines), fallback)

\* C6: for an existing file parse_markdown_title returns the trimmed text
\* of the first heading line (white space, #, spaces, text), wherever the
\* task lines are, and the base name without extension when there is none.
C6_TitleExtraction ==
    (last.op = "parse_title" /\ ArgIsFile) =>
        last.ret = DocTitle(ArgLines, PathStem(ExpandUser(Parts(last.arg))))

\* C7: when the path names no regular file (nothing, or a directory),
\* parse_markdown_tasks returns (0, 0), parse_markdown_title returns the
\* base name without extension, and neither raises.
C7_MissingFile ==
    (last.op \in {"parse_tasks", "parse_title"} /\ ~ArgIsFile) =>
        /\ last.exc = "none"
        /\ last.op = "parse_tasks" => last.ret = <<0, 0>>
        /\ last.op = "parse_title" =>
              last.ret = PathStem(ExpandUser(Parts(last.arg)))

\* C8: every pair parse_markdown_tasks returns, and every ChecklistStat
\* of build_stats and of ChecklistManager.stats(), has
\* 0 <= completed <= total.
C8_CompletedAtMostTotal ==
    /\ (last.op = "parse_tasks" /\ last.exc = "none") =>
          (0 <= last.ret[1] /\ last.ret[1] <= last.ret[2])
    /\ (last.op \in {"build_stats", "stats"} /\ last.exc = "none") =>
          \A i \in 1..Len(last.ret) :
              0 <= last.ret[i].completed /\ last.ret[i].completed <= last.ret[i].total

\* C8's case: stats() returned the stat of a Markdown file that has lines
C8_Witness ==
    /\ last.op = "stats"
    /\ last.exc = "none"
    /\ Len(last.ret) = 2
    /\ fs["/d/a.md"].lines = ExampleFile

\* C9: in every state of a manager, right after loading a config file
\* included, no two entries of the tracked list denote the same path after
\* normalization.
C9_NoDuplicates ==
    (mgr = "ready" /\ WellFormed(data)) =>
        \A i, j \in 1..Len(data.items) :
            i # j => Canonical(data.items[i]) # Canonical(data.items[j])

\* the step is an add that appended a new path
Appends ==
    /\ last'.op = "add"
    /\ WellFormed(data)
    /\ ~InSeq(Canonical(last'.arg), data.items)
    /\ data' = [data EXCEPT !.items = Append(@, Canonical(last'.arg))]

\* the step is a remove that deleted a present path
Deletes ==
    /\ last'.op = "remove"
    /\ WellFormed(data)
    /\ InSeq(Canonical(last'.arg), data.items)
    /\ data' = [data EXCEPT !.items = RemoveFirst(Canonical(last'.arg), @)]

\* C10: the config file is written only by an add that appends a new path
\* or a remove that deletes a present one; every other call (add of a
\* tracked path, remove of an untracked one, construction, list_paths,
\* stats) leaves the tracked list and the config file as they are, and
\* creates no file.
C10_PersistOnlyOnChange ==
    [][/\ (last'.saved \/ cfg' # cfg) => (Appends \/ Deletes)
       /\ (Appends \/ Deletes) => (last'.saved /\ cfg' = Save(data'))
       /\ ~(Appends \/ Deletes) =>
             /\ cfg' = cfg
             /\ mgr = "ready" => data' = data
      ]_vars

\* C10's case: a remove of an untracked path while no config file exists
C10_Witness ==
    /\ last.op = "remove"
    /\ last.exc = "none"
    /\ ~last.saved
    /\ ~cfg.exists

\* the config file the program found was absent or held {"lists": [...]}
AbsentOrModern ==
    \/ ~cfg0.exists
    \/ /\ JsonLoads(cfg0.toks).ok
       /\ WellFormed(JsonLoads(cfg0.toks).val)

\* C11: starting from an absent or modern-shape config file, after every
\* add or remove of one manager the config file holds the whole current
\* tracked list: once a call has saved, the file exists and parses to
\* {"lists": <the manager's list>}, and a new ChecklistManager constructed
\* on the same path returns the same list_paths(), in the same order.
C11_PersistenceConsistency ==
    (AbsentOrModern /\ mgr = "ready") =>
        /\ WellFormed(data)
        /\ last.saved => cfg.exists
        /\ cfg.exists =>
              /\ JsonLoads(cfg.toks).ok
              /\ JsonLoads(cfg.toks).val = JDict("lists", "list", data.items)
        /\ LET fresh == ListPathsBody(Load(cfg).data)
           IN  /\ fresh.exc = "none"
               /\ fresh.vt = "list"
               /\ fresh.ret = data.items

\* C11's case: two adds from no config file, the second of which saved a
\* two-element list
C11_Witness ==
    /\ FromAbsent
    /\ last.op = "add"
    /\ last.saved
    /\ Len(data.items) = 2
    /\ cfg.exists

\* s without its i-th element
DropAt(s, i) == SubSeq(s, 1, i - 1) \o SubSeq(s, i + 1, Len(s))

\* C12: list_paths() returns the tracked paths in the order in which they
\* were added: it returns the list as it stands, an add of a path that is
\* not tracked puts it last, a remove of a tracked path deletes it and
\* keeps the order of the others, and a path removed and then added again
\* ends up last.
C12_InsertionOrder ==
    [][(Recognized(cfg0) /\ mgr = "ready") =>
         /\ last'.op = "list_paths" =>
               /\ last'.exc = "none"
               /\ last'.ret = data.items
         /\ (last'.op = "add" /\ ~InSeq(Canonical(last'.arg), data.items)) =>
               /\ last'.exc = "none"
               /\ data'.items = Append(data.items, Canonical(last'.arg))
         /\ (last'.op = "remove" /\ InSeq(Canonical(last'.arg), data.items)) =>
               /\ last'.exc = "none"
               /\ \E i \in 1..Len(data.items) :
                     /\ data.items[i] = Canonical(last'.arg)
                     /\ data'.items = DropAt(data.items, i)
         /\ (/\ last.op = "remove"
             /\ last.saved
             /\ last'.op = "add"
             /\ Canonical(last'.arg) = Canonical(last.arg)) =>
               /\ data'.items # <<>>
               /\ data'.items[Len(data'.items)] = Canonical(last'.arg)
      ]_vars

\* the config file the program found repeats no path
UniqueAtStart ==
    LET l == Load(cfg0).data.items
    IN  \A i, j \in 1..Len(l) : i # j => l[i] # l[j]

\* C12 on a manager whose list was loaded from {"lists": [...]} without a
\* repeated path, or from no file: the order is kept as the claim says
C12_OrderOnUniqueLists ==
    [][(AbsentOrModern /\ UniqueAtStart /\ mgr = "ready") =>
         /\ last'.op = "list_paths" =>
               /\ last'.exc = "none"
               /\ last'.ret = data.items
         /\ (last'.op = "add" /\ ~InSeq(Canonical(last'.arg), data.items)) =>
               /\ last'.exc = "none"
               /\ data'.items = Append(data.items, Canonical(last'.arg))
         /\ (last'.op = "remove" /\ InSeq(Canonical(last'.arg), data.items)) =>
               /\ last'.exc = "none"
               /\ \E i \in 1..Len(data.items) :
                     /\ data.items[i] = Canonical(last'.arg)
                     /\ data'.items = DropAt(data.items, i)
         /\ (/\ last.op = "remove"
             /\ last.saved
             /\ last'.op = "add"
             /\ Canonical(last'.arg) = Canonical(last.arg)) =>
               /\ data'.items # <<>>
               /\ data'.items[Len(data'.items)] = Canonical(last'.arg)
      ]_vars

\* the config file holds one of the two documented shapes
Usable(file) ==
    /\ file.exists
    /\ \/ IsArray(file.toks)
       \/ (JsonLoads(file.toks).ok /\ WellFormed(JsonLoads(file.toks).val))

\* C13: whatever the config file holds (text that does not parse, or JSON
\* of any shape: bare array, object without "lists", object whose "lists"
\* is not an array, number, string, null), construction, add, remove,
\* list_paths and stats raise nothing, and content that is neither of the
\* documented shapes gives the empty tracked list.
C13_ManagerNeverRaises ==
    /\ last.op \in {"init", "add", "remove", "list_paths", "stats"} =>
          last.exc = "none"
    /\ (/\ cfg0.exists
        /\ ~Usable(cfg0)
        /\ cfg = cfg0
        /\ last.op = "list_paths") => last.ret = <<>>

\* C14: for every existing regular file, whatever its lines (lines that
\* match the task or the title pattern as the code compiles them included),
\* parse_markdown_tasks returns a pair of counts and parse_markdown_title
\* returns a string; neither raises.
C14_ParserNeverRaises ==
    (last.op \in {"parse_tasks", "parse_title"} /\ ArgIsFile) =>
        /\ last.exc = "none"
        /\ last.op = "parse_tasks" =>
              (last.ret[1] \in Nat /\ last.ret[2] \in Nat)

\* the paths the aggregating call was given
StatsInput == IF last.op = "stats" THEN data.items ELSE last.arg

\* the i-th stat is what the parser gives for the i-th path on its own
StatMatches(stat, p) ==
    /\ ParseTasks(fs, p).exc = "none"
    /\ stat.title = ParseTitle(fs, p)
    /\ stat.completed = ParseTasks(fs, p).completed
    /\ stat.total = ParseTasks(fs, p).total

\* C15: build_stats(paths), and stats() on the tracked list, return one
\* ChecklistStat per input path, in input order and without merging
\* repeated paths, and the i-th stat carries the title and the counts the
\* parser returns for the i-th path alone.
C15_StatsAggregation ==
    last.op \in {"build_stats", "stats"} =>
        /\ last.exc = "none"
        /\ Len(last.ret) = Len(StatsInput)
        /\ \A i \in 1..Len(StatsInput) : StatMatches(last.ret[i], StatsInput[i])

\* C15 for the calls that return: one stat per path, in order, each equal
\* to the parser's result for that path
C15_WhenReturned ==
    (last.op \in {"build_stats", "stats"} /\ last.exc = "none") =>
        /\ Len(last.ret) = Len(StatsInput)
        /\ \A i \in 1..Len(StatsInput) : StatMatches(last.ret[i], StatsInput[i])

\* the paths of the legacy array the program found
LegacyPaths == JsonLoads(cfg0.toks).val.items

\* the config file parses to {"lists": l}
HoldsModern(file, l) ==
    /\ file.exists
    /\ JsonLoads(file.toks).ok
    /\ JsonLoads(file.toks).val = JDict("lists", "list", l)

\* C16: after a bare JSON array has been loaded, the first add or remove
\* that changes the list succeeds and rewrites the config file in the
\* modern shape {"lists": [...]} with the whole tracked list.
C16_LegacyMigration ==
    [][(IsLegacy(cfg0) /\ cfg = cfg0 /\ mgr = "ready") =>
         /\ (/\ last'.op = "add"
             /\ ~InSeq(Canonical(last'.arg), LegacyPaths)) =>
               /\ last'.exc = "none"
               /\ HoldsModern(cfg', Append(LegacyPaths, Canonical(last'.arg)))
         /\ (/\ last'.op = "remove"
             /\ InSeq(Canonical(last'.arg), LegacyPaths)) =>
               /\ last'.exc = "none"
               /\ HoldsModern(cfg', RemoveFirst(Canonical(last'.arg), LegacyPaths))
      ]_vars

\* C18: a process that dies inside _save leaves the config file with only
\* a part of the new text; every such part is unparseable JSON, and the
\* next construction on that file raises nothing and starts with the empty
\* tracked list.
C18_CrashDuringPersist ==
    [][/\ last'.op = "crash" => IsMalformed(cfg')
       /\ (last.op = "crash" /\ last'.op = "init") =>
             /\ last'.exc = "none"
             /\ mgr' = "ready"
             /\ data' = JDict("lists", "list", <<>>)
             /\ ListPathsBody(data').ret = <<>>
      ]_vars

\* C18's case: the config file was sound, the write of a list that held
\* /d/a.md was cut after the path, and the manager constructed afterwards
\* tracks nothing
C18_Witness ==
    /\ last.op = "init"
    /\ ~IsMalformed(cfg0)
    /\ cfg # cfg0
    /\ IsMalformed(cfg)
    /\ \E i \in 1..Len(cfg.toks) : cfg.toks[i] = S("/d/a.md")
    /\ mgr = "ready"
    /\ data.items = <<>>

\* both invocations have ended
Finished == \A i \in Invocations : inv[i].pc \in {"done", "failed"}

\* the invocation whose write came last
LastWriter == log[Len(log)][1]

\* no save began while another was under way: the log is a run of
\* open/write pairs, each pair by one invocation
Serial ==
    \A k \in 1..Len(log) :
        IF k % 2 = 1
        THEN log[k][2] = "open"
        ELSE log[k][2] = "write" /\ log[k][1] = log[k - 1][1]

\* C17 as stated: when two invocations interleave on one config file,
\* the file ends up holding exactly the tracked list of the invocation
\* that saved last.
C17_LastWriterWins ==
    (Finished /\ log # <<>>) =>
        HoldsModern(cfg, inv[LastWriter].data.items)

\* C17, amended: when the two saves do not overlap, the file ends up
\* holding exactly the tracked list of the invocation that saved last (and
\* a path the other invocation added can be missing from it); when they
\* overlap, the file can hold the later text followed by the rest of the
\* earlier, longer one.
C17_LastWriterWinsSerial ==
    (Finished /\ log # <<>> /\ Serial) =>
        HoldsModern(cfg, inv[LastWriter].data.items)

\* C17's case: both invocations saved one after the other, and the path
\* the first one added is not in the file the second one left
C17_Witness ==
    /\ Finished
    /\ Serial
    /\ Len(log) = 4
    /\ \E i \in Invocations :
          /\ i # LastWriter
          /\ inv[i].op = "add"
          /\ InSeq(Canonical(inv[i].arg), inv[i].data.items)
          /\ ~InSeq(Canonical(inv[i].arg), Load(cfg0).data.items)
          /\ HoldsModern(cfg, inv[LastWriter].data.items)
          /\ ~InSeq(Canonical(inv[i].arg), JsonLoads(cfg.toks).val.items)

\* the first heading of the file the beta call was given, or its base name
BetaDocTitle ==
    IF BetaIsFile(fs, last.arg)
    THEN DocTitle(FileAt(fs, Parts(last.arg)).lines, BetaBaseName(last.arg))
    ELSE BetaBaseName(last.arg)

\* C19: for every file the single-pass parse_markdown_file returns the
\* title and the (completed, total) that parse_markdown_title and
\* parse_markdown_tasks return: the title is the first heading line of the
\* file, whatever its text, and the counts cover the whole file.
C19_SinglePassAgrees ==
    last.op = "beta_parse_file" =>
        /\ last.ret[1] = BetaParseTitle(fs, last.arg)
        /\ last.ret[2] = BetaParseTasks(fs, last.arg).completed
        /\ last.ret[3] = BetaParseTasks(fs, last.arg).total
        /\ last.ret[1] = BetaDocTitle

\* the two scans of beta/main.py do return the first heading, and the
\* counts of the single pass are those of the task scan
C19_TwoPassAndCounts ==
    /\ last.op = "beta_two_pass" => last.ret[1] = BetaDocTitle
    /\ last.op = "beta_parse_file" =>
          /\ last.ret[2] = BetaParseTasks(fs, last.arg).completed
          /\ last.ret[3] = BetaParseTasks(fs, last.arg).total

====
